---- MODULE Spec2Model ----
(***************************************************************************)
(* Taxonomic ranks (src/rank.rs): the TaxRank vocabulary, the emitter      *)
(* TaxRank::to_ncbi_rank and the parser <TaxRank as FromStr>::from_str.    *)
(*                                                                         *)
(* A Rust string is modelled as a sequence of one-character strings, so    *)
(* that trimming and lower-casing are computed character by character.     *)
(* The alphabet is ASCII: the letters, the underscore and three white      *)
(* space characters (space, tab, newline).                                 *)
(***************************************************************************)
EXTENDS Integers, Sequences, FiniteSets, TLC

VARIABLES pc, input, res, self, name, back

vars == <<pc, input, res, self, name, back>>

(***************************************************************************)
(* Characters and the two str methods from_str calls.                      *)
(***************************************************************************)

\* The white space characters str::trim removes (ASCII part of White_Space).
WhiteSpace == {" ", "\t", "\n"}

UpperCase == <<"A","B","C","D","E","F","G","H","I","J","K","L","M","N","O","P","Q","R","S","T","U","V","W","X","Y","Z">>

LowerCase == <<"a","b","c","d","e","f","g","h","i","j","k","l","m","n","o","p","q","r","s","t","u","v","w","x","y","z">>

\* char::to_lowercase on the model's alphabet: an upper-case letter becomes
\* its lower-case letter, every other character stays.
to_lowercase_char(c) ==
    IF \E i \in 1..Len(UpperCase) : UpperCase[i] = c
    THEN LowerCase[CHOOSE i \in 1..Len(UpperCase) : UpperCase[i] = c]
    ELSE c

\* char::to_uppercase, used only to build inputs.
to_uppercase_char(c) ==
    IF \E i \in 1..Len(LowerCase) : LowerCase[i] = c
    THEN UpperCase[CHOOSE i \in 1..Len(LowerCase) : LowerCase[i] = c]
    ELSE c

\* str::to_lowercase
to_lowercase(s) == [i \in 1..Len(s) |-> to_lowercase_char(s[i])]

RECURSIVE trim_start(_)
\* str::trim_start: drop leading white space
trim_start(s) ==
    IF s # << >> /\ Head(s) \in WhiteSpace THEN trim_start(Tail(s)) ELSE s

RECURSIVE trim_end(_)
\* str::trim_end: drop trailing white space
trim_end(s) ==
    IF s # << >> /\ s[Len(s)] \in WhiteSpace
    THEN trim_end(SubSeq(s, 1, Len(s) - 1))
    ELSE s

\* str::trim
trim(s) == trim_end(trim_start(s))

(***************************************************************************)
(* enum TaxRank                                                            *)
(***************************************************************************)

\* The 77 named ranks, in declaration order.
NamedRanks ==
    << "Domain", "Subdomain", "Realm", "Subrealm", "Hyperkingdom",
       "Superkingdom", "Kingdom", "Subkingdom", "Infrakingdom", "Parvkingdom",
       "Superphylum", "Phylum", "Subphylum", "Infraphylum", "Microphylum",
       "Superclass", "Class", "Subclass", "Infraclass", "Parvclass",
       "Superdivision", "Division", "Subdivision", "Infradivision",
       "Superlegion", "Legion", "Sublegion", "Infralegion",
       "Supercohort", "Cohort", "Subcohort", "Infracohort",
       "Superorder", "Gigaorder", "Magnorder", "Grandorder", "Mirorder",
       "SeriesFish", "Order", "Nanorder", "Hypoorder", "Suborder",
       "Infraorder", "Parvorder", "Section", "Subsection",
       "Gigafamily", "Megafamily", "Grandfamily", "Hyperfamily",
       "Superfamily", "Epifamily", "SeriesLepidoptera", "GroupLepidoptera",
       "Family", "Subfamily", "Infrafamily", "Supertribe", "Tribe",
       "Subtribe", "Infratribe", "Genus", "Subgenus", "SeriesBotany",
       "SubseriesBotany", "SpeciesGroup", "SpeciesSubgroup", "Species",
       "Subspecies", "Varietas", "Subvarietas", "Forma", "Subforma",
       "Cultivar", "Breed", "Strain", "Individual" >>

\* Every value of the enum: the named ranks, Unspecified and the hidden
\* placeholder.
TaxRank ==
    {NamedRanks[i] : i \in 1..Len(NamedRanks)} \cup {"Unspecified", "__Nonexhaustive"}

\* static RANKS of the test module: every variant but the hidden one.
RANKS == NamedRanks \o << "Unspecified" >>

(***************************************************************************)
(* TaxRank::to_ncbi_rank                                                   *)
(***************************************************************************)

\* The explicit arms of the match in to_ncbi_rank.
NcbiArms ==
    "Superkingdom" :> <<"s","u","p","e","r","k","i","n","g","d","o","m">> @@
    "Kingdom" :> <<"k","i","n","g","d","o","m">> @@
    "Subkingdom" :> <<"s","u","b","k","i","n","g","d","o","m">> @@
    "Superphylum" :> <<"s","u","p","e","r","p","h","y","l","u","m">> @@
    "Phylum" :> <<"p","h","y","l","u","m">> @@
    "Subphylum" :> <<"s","u","b","p","h","y","l","u","m">> @@
    "Superclass" :> <<"s","u","p","e","r","c","l","a","s","s">> @@
    "Class" :> <<"c","l","a","s","s">> @@
    "Subclass" :> <<"s","u","b","c","l","a","s","s">> @@
    "Infraclass" :> <<"i","n","f","r","a","c","l","a","s","s">> @@
    "Cohort" :> <<"c","o","h","o","r","t">> @@
    "Superorder" :> <<"s","u","p","e","r","o","r","d","e","r">> @@
    "Order" :> <<"o","r","d","e","r">> @@
    "Suborder" :> <<"s","u","b","o","r","d","e","r">> @@
    "Infraorder" :> <<"i","n","f","r","a","o","r","d","e","r">> @@
    "Parvorder" :> <<"p","a","r","v","o","r","d","e","r">> @@
    "Superfamily" :> <<"s","u","p","e","r","f","a","m","i","l","y">> @@
    "Family" :> <<"f","a","m","i","l","y">> @@
    "Subfamily" :> <<"s","u","b","f","a","m","i","l","y">> @@
    "Tribe" :> <<"t","r","i","b","e">> @@
    "Subtribe" :> <<"s","u","b","t","r","i","b","e">> @@
    "Genus" :> <<"g","e","n","u","s">> @@
    "Subgenus" :> <<"s","u","b","g","e","n","u","s">> @@
    "SpeciesGroup" :> <<"s","p","e","c","i","e","s"," ","g","r","o","u","p">> @@
    "SpeciesSubgroup" :> <<"s","p","e","c","i","e","s"," ","s","u","b","g","r","o","u","p">> @@
    "Species" :> <<"s","p","e","c","i","e","s">> @@
    "Subspecies" :> <<"s","u","b","s","p","e","c","i","e","s">> @@
    "Varietas" :> <<"v","a","r","i","e","t","a","s">> @@
    "Forma" :> <<"f","o","r","m","a">> @@
    "Unspecified" :> <<"n","o"," ","r","a","n","k">>

\* Mutation: the Tribe arm returns the name of the neighbouring arm.
to_ncbi_rank_tribe_swapped(rank) ==
    IF rank = "Tribe" THEN NcbiArms["Subtribe"]
    ELSE IF rank \in DOMAIN NcbiArms THEN NcbiArms[rank] ELSE <<"n","o"," ","r","a","n","k">>

\* Mutation: the wildcard arm returns a string the parser does not know.
to_ncbi_rank_wildcard_unranked(rank) ==
    IF rank \in DOMAIN NcbiArms THEN NcbiArms[rank] ELSE <<"u","n","r","a","n","k","e","d">>

\* Mutation: the Unspecified arm returns the variant's own name.
to_ncbi_rank_unspecified_named(rank) ==
    IF rank = "Unspecified" THEN <<"u","n","s","p","e","c","i","f","i","e","d">>
    ELSE IF rank \in DOMAIN NcbiArms THEN NcbiArms[rank] ELSE <<"n","o"," ","r","a","n","k">>

\* Mutation: an arm for a rank NCBI does not use.
to_ncbi_rank_extra_arm(rank) ==
    IF rank = "Subforma" THEN <<"s","u","b","f","o","r","m","a">>
    ELSE IF rank \in DOMAIN NcbiArms THEN NcbiArms[rank] ELSE <<"n","o"," ","r","a","n","k">>

\* match self { <arms>, _ => "no rank" }
to_ncbi_rank(rank) ==
    IF rank \in DOMAIN NcbiArms THEN NcbiArms[rank] ELSE <<"n","o"," ","r","a","n","k">>

(***************************************************************************)
(* <TaxRank as FromStr>::from_str                                          *)
(***************************************************************************)

\* Result<TaxRank, TaxonomyError>
Ok(rank) == [tag |-> "Ok", value |-> rank]

Err(s) == [tag |-> "Err", kind |-> "UnrecognizedRank", rank |-> s]

\* The string arms of the match in from_str, in source order: the patterns
\* of an arm and the rank it returns.
MatchArms ==
    << [pats |-> {<<"d","o","m","a","i","n">>, <<"r","e","g","i","o">>}, rank |-> "Domain"],
       [pats |-> {<<"s","u","b","d","o","m","a","i","n">>}, rank |-> "Subdomain"],
       [pats |-> {<<"s","u","p","e","r","k","i","n","g","d","o","m">>}, rank |-> "Superkingdom"],
       [pats |-> {<<"k","i","n","g","d","o","m">>, <<"r","e","g","n","u","m">>}, rank |-> "Kingdom"],
       [pats |-> {<<"s","u","b","k","i","n","g","d","o","m">>, <<"s","u","b","r","e","g","n","u","m">>}, rank |-> "Subkingdom"],
       [pats |-> {<<"s","u","p","e","r","p","h","y","l","u","m">>, <<"s","u","p","e","r","p","h","y","l","a">>}, rank |-> "Superphylum"],
       [pats |-> {<<"p","h","y","l","u","m">>, <<"p","h","y","l","a">>, <<"d","i","v","i","s","i","o">>}, rank |-> "Phylum"],
       [pats |-> {<<"s","u","b","p","h","y","l","u","m">>, <<"s","u","b","p","h","y","l","a">>, <<"s","u","b","d","i","v","i","s","i","o">>}, rank |-> "Subphylum"],
       [pats |-> {<<"s","u","p","e","r","c","l","a","s","s">>}, rank |-> "Superclass"],
       [pats |-> {<<"c","l","a","s","s">>, <<"c","l","a","s","s","i","s">>}, rank |-> "Class"],
       [pats |-> {<<"s","u","b","c","l","a","s","s">>, <<"s","u","b","c","l","a","s","s","i","s">>}, rank |-> "Subclass"],
       [pats |-> {<<"i","n","f","r","a","c","l","a","s","s">>}, rank |-> "Infraclass"],
       [pats |-> {<<"c","o","h","o","r","t">>}, rank |-> "Cohort"],
       [pats |-> {<<"s","u","p","e","r","o","r","d","e","r">>}, rank |-> "Superorder"],
       [pats |-> {<<"o","r","d","e","r">>, <<"o","r","d","o">>}, rank |-> "Order"],
       [pats |-> {<<"s","u","b","o","r","d","e","r">>, <<"s","u","b","o","r","d","o">>}, rank |-> "Suborder"],
       [pats |-> {<<"i","n","f","r","a","o","r","d","e","r">>}, rank |-> "Infraorder"],
       [pats |-> {<<"p","a","r","v","o","r","d","e","r">>}, rank |-> "Parvorder"],
       [pats |-> {<<"s","e","c","t","i","o","n">>, <<"s","e","c","t","i","o">>}, rank |-> "Section"],
       [pats |-> {<<"s","u","b","s","e","c","t","i","o","n">>}, rank |-> "Subsection"],
       [pats |-> {<<"s","u","p","e","r","f","a","m","i","l","y">>}, rank |-> "Superfamily"],
       [pats |-> {<<"f","a","m","i","l","y">>, <<"f","a","m","i","l","i","a">>}, rank |-> "Family"],
       [pats |-> {<<"s","u","b","f","a","m","i","l","y">>}, rank |-> "Subfamily"],
       [pats |-> {<<"t","r","i","b","e">>, <<"s","u","b","t","r","i","b","u","s">>}, rank |-> "Tribe"],
       [pats |-> {<<"s","u","b","t","r","i","b","e">>}, rank |-> "Subtribe"],
       [pats |-> {<<"g","e","n","u","s">>, <<"g","e","n","e","r","a">>}, rank |-> "Genus"],
       [pats |-> {<<"s","u","b","g","e","n","u","s">>}, rank |-> "Subgenus"],
       [pats |-> {<<"s","p","e","c","i","e","s"," ","g","r","o","u","p">>}, rank |-> "SpeciesGroup"],
       [pats |-> {<<"s","p","e","c","i","e","s"," ","s","u","b","g","r","o","u","p">>}, rank |-> "SpeciesSubgroup"],
       [pats |-> {<<"s","p","e","c","i","e","s">>}, rank |-> "Species"],
       [pats |-> {<<"s","u","b","s","p","e","c","i","e","s">>}, rank |-> "Subspecies"],
       [pats |-> {<<"v","a","r","i","e","t","y">>, <<"v","a","r","i","e","t","a","s">>}, rank |-> "Varietas"],
       [pats |-> {<<"f","o","r","m">>, <<"f","o","r","m","a">>}, rank |-> "Forma"],
       [pats |-> {<<"s","u","b","f","o","r","m">>, <<"s","u","b","f","o","r","m","a">>}, rank |-> "Subforma"],
       [pats |-> {<<"s","t","r","a","i","n">>}, rank |-> "Strain"],
       [pats |-> {<<"n","o"," ","r","a","n","k">>}, rank |-> "Unspecified"] >>

\* match n { <arms>, _ => Err(UnrecognizedRank { rank: s.to_string() }) }:
\* the first arm with a pattern equal to n, the wildcard arm when there is none.
match_rank(s, n) ==
    LET hits == {i \in 1..Len(MatchArms) : n \in MatchArms[i].pats}
    IN  IF hits = {}
        THEN Err(s)
        ELSE Ok(MatchArms[CHOOSE i \in hits : \A j \in hits : i <= j].rank)

\* Mutation: the input is matched without being trimmed.
from_str_untrimmed(s) == match_rank(s, to_lowercase(s))

\* Mutation: the error carries the normalised string, not the input.
from_str_err_normalised(s) ==
    match_rank(to_lowercase(trim(s)), to_lowercase(trim(s)))

\* Mutation: the Latin synonym of Kingdom is missing from its arm.
from_str_without_regnum(s) ==
    IF to_lowercase(trim(s)) = <<"r","e","g","n","u","m">>
    THEN Err(s)
    ELSE match_rank(s, to_lowercase(trim(s)))

\* Mutation: the wildcard arm defaults to Unspecified.
from_str_defaulting(s) ==
    IF match_rank(s, to_lowercase(trim(s))).tag = "Err"
    THEN Ok("Unspecified")
    ELSE match_rank(s, to_lowercase(trim(s)))

\* fn from_str(s: &str) -> Result<Self>
from_str(s) == match_rank(s, to_lowercase(trim(s)))

(***************************************************************************)
(* Inputs                                                                  *)
(***************************************************************************)

\* Longest run of white space put before and after a word.
MaxPad == 1

\* The lower-case English name of each variant whose identifier is a plain
\* rank name (the lineage-specific Series*/Group* variants, Unspecified and
\* the hidden placeholder have none).
PlainName ==
    "Domain" :> <<"d","o","m","a","i","n">> @@
    "Subdomain" :> <<"s","u","b","d","o","m","a","i","n">> @@
    "Realm" :> <<"r","e","a","l","m">> @@
    "Subrealm" :> <<"s","u","b","r","e","a","l","m">> @@
    "Hyperkingdom" :> <<"h","y","p","e","r","k","i","n","g","d","o","m">> @@
    "Superkingdom" :> <<"s","u","p","e","r","k","i","n","g","d","o","m">> @@
    "Kingdom" :> <<"k","i","n","g","d","o","m">> @@
    "Subkingdom" :> <<"s","u","b","k","i","n","g","d","o","m">> @@
    "Infrakingdom" :> <<"i","n","f","r","a","k","i","n","g","d","o","m">> @@
    "Parvkingdom" :> <<"p","a","r","v","k","i","n","g","d","o","m">> @@
    "Superphylum" :> <<"s","u","p","e","r","p","h","y","l","u","m">> @@
    "Phylum" :> <<"p","h","y","l","u","m">> @@
    "Subphylum" :> <<"s","u","b","p","h","y","l","u","m">> @@
    "Infraphylum" :> <<"i","n","f","r","a","p","h","y","l","u","m">> @@
    "Microphylum" :> <<"m","i","c","r","o","p","h","y","l","u","m">> @@
    "Superclass" :> <<"s","u","p","e","r","c","l","a","s","s">> @@
    "Class" :> <<"c","l","a","s","s">> @@
    "Subclass" :> <<"s","u","b","c","l","a","s","s">> @@
    "Infraclass" :> <<"i","n","f","r","a","c","l","a","s","s">> @@
    "Parvclass" :> <<"p","a","r","v","c","l","a","s","s">> @@
    "Superdivision" :> <<"s","u","p","e","r","d","i","v","i","s","i","o","n">> @@
    "Division" :> <<"d","i","v","i","s","i","o","n">> @@
    "Subdivision" :> <<"s","u","b","d","i","v","i","s","i","o","n">> @@
    "Infradivision" :> <<"i","n","f","r","a","d","i","v","i","s","i","o","n">> @@
    "Superlegion" :> <<"s","u","p","e","r","l","e","g","i","o","n">> @@
    "Legion" :> <<"l","e","g","i","o","n">> @@
    "Sublegion" :> <<"s","u","b","l","e","g","i","o","n">> @@
    "Infralegion" :> <<"i","n","f","r","a","l","e","g","i","o","n">> @@
    "Supercohort" :> <<"s","u","p","e","r","c","o","h","o","r","t">> @@
    "Cohort" :> <<"c","o","h","o","r","t">> @@
    "Subcohort" :> <<"s","u","b","c","o","h","o","r","t">> @@
    "Infracohort" :> <<"i","n","f","r","a","c","o","h","o","r","t">> @@
    "Superorder" :> <<"s","u","p","e","r","o","r","d","e","r">> @@
    "Gigaorder" :> <<"g","i","g","a","o","r","d","e","r">> @@
    "Magnorder" :> <<"m","a","g","n","o","r","d","e","r">> @@
    "Grandorder" :> <<"g","r","a","n","d","o","r","d","e","r">> @@
    "Mirorder" :> <<"m","i","r","o","r","d","e","r">> @@
    "Order" :> <<"o","r","d","e","r">> @@
    "Nanorder" :> <<"n","a","n","o","r","d","e","r">> @@
    "Hypoorder" :> <<"h","y","p","o","o","r","d","e","r">> @@
    "Suborder" :> <<"s","u","b","o","r","d","e","r">> @@
    "Infraorder" :> <<"i","n","f","r","a","o","r","d","e","r">> @@
    "Parvorder" :> <<"p","a","r","v","o","r","d","e","r">> @@
    "Section" :> <<"s","e","c","t","i","o","n">> @@
    "Subsection" :> <<"s","u","b","s","e","c","t","i","o","n">> @@
    "Gigafamily" :> <<"g","i","g","a","f","a","m","i","l","y">> @@
    "Megafamily" :> <<"m","e","g","a","f","a","m","i","l","y">> @@
    "Grandfamily" :> <<"g","r","a","n","d","f","a","m","i","l","y">> @@
    "Hyperfamily" :> <<"h","y","p","e","r","f","a","m","i","l","y">> @@
    "Superfamily" :> <<"s","u","p","e","r","f","a","m","i","l","y">> @@
    "Epifamily" :> <<"e","p","i","f","a","m","i","l","y">> @@
    "Family" :> <<"f","a","m","i","l","y">> @@
    "Subfamily" :> <<"s","u","b","f","a","m","i","l","y">> @@
    "Infrafamily" :> <<"i","n","f","r","a","f","a","m","i","l","y">> @@
    "Supertribe" :> <<"s","u","p","e","r","t","r","i","b","e">> @@
    "Tribe" :> <<"t","r","i","b","e">> @@
    "Subtribe" :> <<"s","u","b","t","r","i","b","e">> @@
    "Infratribe" :> <<"i","n","f","r","a","t","r","i","b","e">> @@
    "Genus" :> <<"g","e","n","u","s">> @@
    "Subgenus" :> <<"s","u","b","g","e","n","u","s">> @@
    "SpeciesGroup" :> <<"s","p","e","c","i","e","s"," ","g","r","o","u","p">> @@
    "SpeciesSubgroup" :> <<"s","p","e","c","i","e","s"," ","s","u","b","g","r","o","u","p">> @@
    "Species" :> <<"s","p","e","c","i","e","s">> @@
    "Subspecies" :> <<"s","u","b","s","p","e","c","i","e","s">> @@
    "Varietas" :> <<"v","a","r","i","e","t","a","s">> @@
    "Subvarietas" :> <<"s","u","b","v","a","r","i","e","t","a","s">> @@
    "Forma" :> <<"f","o","r","m","a">> @@
    "Subforma" :> <<"s","u","b","f","o","r","m","a">> @@
    "Cultivar" :> <<"c","u","l","t","i","v","a","r">> @@
    "Breed" :> <<"b","r","e","e","d">> @@
    "Strain" :> <<"s","t","r","a","i","n">> @@
    "Individual" :> <<"i","n","d","i","v","i","d","u","a","l">>
\* Every pattern of the match in from_str.
Spellings == UNION {MatchArms[i].pats : i \in 1..Len(MatchArms)}

\* Strings that are no pattern of from_str: unknown words, prefixes and
\* extensions of patterns, patterns with altered inner white space.
OtherWords ==
    { <<"f","a","k","e","_","d","a","t","a">>, <<"b","o","g","u","s">>, << >>, <<"s","p","e","c","i">>, <<"k","i","n","g","d","o","m","s">>, <<"s","u","b">>, <<"t","r","i","b","u","s">>,
      <<"n","o"," "," ","r","a","n","k">>, <<"n","o","r","a","n","k">>, <<"n","o","_","r","a","n","k">>, <<"n","o","\t","r","a","n","k">>, <<"s","p","e","c","i","e","s"," "," ","g","r","o","u","p">>,
      <<"s","p","e","c","i","e","s","g","r","o","u","p">>, <<"k","i","n","g"," ","d","o","m">>, <<"u","n","s","p","e","c","i","f","i","e","d">>, <<"_","_","n","o","n","e","x","h","a","u","s","t","i","v","e">> }

Words == Spellings \cup {PlainName[v] : v \in DOMAIN PlainName} \cup OtherWords

CaseModes == {"lower", "upper", "title", "alternating"}

\* w with its letters' case changed
Cased(w, mode) ==
    [i \in 1..Len(w) |->
        CASE mode = "upper" -> to_uppercase_char(w[i])
          [] mode = "title" -> IF i = 1 THEN to_uppercase_char(w[i]) ELSE w[i]
          [] mode = "alternating" -> IF i % 2 = 1 THEN to_uppercase_char(w[i]) ELSE w[i]
          [] OTHER -> w[i]]

\* The white space strings of length at most n
Pads(n) == UNION {[1..k -> WhiteSpace] : k \in 0..n}

Inputs ==
    {l \o Cased(w, m) \o r :
        l \in Pads(MaxPad), r \in Pads(MaxPad), w \in Words, m \in CaseModes}

(***************************************************************************)
(* The state machine: a caller either parses an input string and exports   *)
(* the rank it got, or selects a variant, exports it and parses the        *)
(* exported name back, as the test test_str_to_rank does for every rank    *)
(* of RANKS.                                                               *)
(***************************************************************************)

\* no result yet
None == [tag |-> "None"]

\* no rank selected or parsed yet
NoVariant == "none"

Init ==
    /\ res = None
    /\ name = << >>
    /\ back = None
    /\ \/ /\ pc = "from_str"
          /\ input \in Inputs
          /\ self = NoVariant
       \/ /\ pc = "to_ncbi_rank"
          /\ input = << >>
          /\ self \in TaxRank

\* TaxRank::from_str(input): the rank of a recognised input is kept for the
\* export, an error ends the run.
FromStr ==
    /\ pc = "from_str"
    /\ res' = from_str(input)
    /\ IF res'.tag = "Ok"
       THEN self' = res'.value /\ pc' = "to_ncbi_rank"
       ELSE self' = self /\ pc' = "done"
    /\ UNCHANGED <<input, name, back>>

\* self.to_ncbi_rank()
ToNcbiRank ==
    /\ pc = "to_ncbi_rank"
    /\ name' = to_ncbi_rank(self)
    /\ pc' = "round_trip"
    /\ UNCHANGED <<input, res, self, back>>

\* TaxRank::from_str(rank.to_ncbi_rank())
RoundTrip ==
    /\ pc = "round_trip"
    /\ back' = from_str(name)
    /\ pc' = "done"
    /\ UNCHANGED <<input, res, self, name>>

Next == FromStr \/ ToNcbiRank \/ RoundTrip

Spec == Init /\ [][Next]_vars

(***************************************************************************)
(* Vocabulary of the properties                                            *)
(***************************************************************************)

\* from_str(input) has returned
Parsed == res # None

\* to_ncbi_rank(self) has returned
Exported == pc \in {"round_trip", "done"} /\ self # NoVariant

\* from_str(name) has returned
Reparsed == back # None

\* c and d are the same character up to letter case
SameLetter(c, d) ==
    \/ c = d
    \/ \E i \in 1..Len(UpperCase) : {c, d} = {UpperCase[i], LowerCase[i]}

\* s is the lower-case word w with letter case changed and white space put
\* before and after it: s[i+1..j] is w up to case, everything around it is
\* white space and the part itself neither starts nor ends with white space.
IsSpellingOf(s, w) ==
    \E i \in 0..(Len(s) - Len(w)) :
        LET j == i + Len(w)
        IN  /\ \A k \in 1..i : s[k] \in WhiteSpace
            /\ \A k \in (j + 1)..Len(s) : s[k] \in WhiteSpace
            /\ i < j => s[i + 1] \notin WhiteSpace /\ s[j] \notin WhiteSpace
            /\ \A k \in 1..Len(w) : SameLetter(s[i + k], w[k])

\* s matches an entry of the spelling table
Recognised(s) == \E w \in Spellings : IsSpellingOf(s, w)

(***************************************************************************)
(* C1: partial round trip. For every variant whose NCBI name is not        *)
(* "no rank", parsing that name gives back Ok of exactly that variant.     *)
(***************************************************************************)
C1_PartialRoundTrip ==
    (Reparsed /\ name # <<"n","o"," ","r","a","n","k">>) => back = [tag |-> "Ok", value |-> self]

C1_Witness ==
    /\ Reparsed
    /\ res = None
    /\ self = "SpeciesSubgroup"
    /\ name = <<"s","p","e","c","i","e","s"," ","s","u","b","g","r","o","u","p">>
    /\ back = [tag |-> "Ok", value |-> "SpeciesSubgroup"]

(***************************************************************************)
(* C2: for every variant of the RANKS table, to_ncbi_rank returns a        *)
(* non-empty string and from_str of that string returns Ok.                *)
(***************************************************************************)
C2_ExportTotalAndParseable ==
    self \in {RANKS[i] : i \in 1..Len(RANKS)} =>
        /\ Exported => Len(name) > 0
        /\ Reparsed => back.tag = "Ok"

C2_Witness ==
    /\ Reparsed
    /\ res = None
    /\ self = "Individual"
    /\ Len(name) > 0
    /\ back.tag = "Ok"

(***************************************************************************)
(* C3: from_str fails exactly when the trimmed, lower-cased input is no    *)
(* entry of the spelling table, and the error is UnrecognizedRank carrying *)
(* the input as passed, untrimmed and in its original case.                *)
(***************************************************************************)
C3_ErrorContract(s, r) ==
    /\ r.tag = "Err" <=> ~Recognised(s)
    /\ r.tag = "Err" => r = [tag |-> "Err", kind |-> "UnrecognizedRank", rank |-> s]

C3_ErrorIffUnrecognised ==
    /\ Parsed => C3_ErrorContract(input, res)
    /\ Reparsed => C3_ErrorContract(name, back)
    /\ (Parsed /\ input = <<"f","a","k","e","_","d","a","t","a">>) =>
            res = [tag |-> "Err", kind |-> "UnrecognizedRank", rank |-> <<"f","a","k","e","_","d","a","t","a">>]
    /\ (Parsed /\ input = <<" ","B","o","g","u","s"," ">>) =>
            res = [tag |-> "Err", kind |-> "UnrecognizedRank", rank |-> <<" ","B","o","g","u","s"," ">>]

C3_Witness ==
    /\ Parsed
    /\ input = <<" ","B","o","g","u","s"," ">>
    /\ res.tag = "Err"
    /\ res.rank = <<" ","B","o","g","u","s"," ">>

(***************************************************************************)
(* C4: case and white space insensitivity. An input that is an accepted    *)
(* spelling with letter case changed and white space around it parses to   *)
(* the same result as the spelling itself.                                 *)
(***************************************************************************)
C4_CaseAndSpaceInsensitive ==
    Parsed =>
        /\ \A w \in Spellings : IsSpellingOf(input, w) => res = from_str(w)
        /\ input \in {<<" ","S","p","e","c","i","e","s"," ">>, <<"s","p","e","c","i","e","s">>, <<"S","P","E","C","I","E","S">>} =>
                res = [tag |-> "Ok", value |-> "Species"]
        /\ input = <<"S","u","p","e","r","k","i","n","g","d","o","m">> => res = [tag |-> "Ok", value |-> "Superkingdom"]
        /\ input = <<"p","h","y","l","u","m">> => res = [tag |-> "Ok", value |-> "Phylum"]
        /\ input = <<" ","G","e","n","u","s">> => res = [tag |-> "Ok", value |-> "Genus"]
        /\ input = <<"r","e","g","n","u","m">> => res = [tag |-> "Ok", value |-> "Kingdom"]

C4_Witness ==
    /\ Parsed
    /\ input = <<" ","S","p","e","c","i","e","s"," ">>
    /\ res = [tag |-> "Ok", value |-> "Species"]

(***************************************************************************)
(* C5: the Unspecified sentinel. "no rank" parses to Unspecified,          *)
(* Unspecified exports as "no rank", and parsing that export gives         *)
(* Unspecified again.                                                      *)
(***************************************************************************)
C5_UnspecifiedSentinel ==
    /\ (Parsed /\ input = <<"n","o"," ","r","a","n","k">>) => res = [tag |-> "Ok", value |-> "Unspecified"]
    /\ (Exported /\ self = "Unspecified") => name = <<"n","o"," ","r","a","n","k">>
    /\ (Reparsed /\ self = "Unspecified") => back = [tag |-> "Ok", value |-> "Unspecified"]

C5_Witness ==
    /\ input = <<"n","o"," ","r","a","n","k">>
    /\ res = [tag |-> "Ok", value |-> "Unspecified"]
    /\ self = "Unspecified"
    /\ name = <<"n","o"," ","r","a","n","k">>
    /\ back = [tag |-> "Ok", value |-> "Unspecified"]

(***************************************************************************)
(* C6: to_ncbi_rank maps each of the 29 NCBI ranks to its own lower-case   *)
(* name, which no other NCBI rank maps to, and every other variant,        *)
(* Unspecified and the hidden placeholder included, to "no rank".          *)
(***************************************************************************)
C6_NcbiRanks ==
    { "Superkingdom", "Kingdom", "Subkingdom", "Superphylum", "Phylum",
      "Subphylum", "Superclass", "Class", "Subclass", "Infraclass", "Cohort",
      "Superorder", "Order", "Suborder", "Infraorder", "Parvorder",
      "Superfamily", "Family", "Subfamily", "Tribe", "Subtribe", "Genus",
      "Subgenus", "SpeciesGroup", "SpeciesSubgroup", "Species", "Subspecies",
      "Varietas", "Forma" }

C6_NcbiNameOrNoRank ==
    Exported =>
        IF self \in C6_NcbiRanks
        THEN /\ name = PlainName[self]
             /\ \A v \in C6_NcbiRanks \ {self} : to_ncbi_rank(v) # name
        ELSE name = <<"n","o"," ","r","a","n","k">>

C6_Witness ==
    /\ Exported
    /\ self = "__Nonexhaustive"
    /\ name = <<"n","o"," ","r","a","n","k">>

(***************************************************************************)
(* C7: the synonyms the specification names parse to the rank of their     *)
(* English name: kingdom/regnum, phylum/divisio, order/ordo,               *)
(* family/familia, genus/genera.                                           *)
(***************************************************************************)
C7_NamedSynonyms ==
    Parsed =>
        /\ input \in {<<"k","i","n","g","d","o","m">>, <<"r","e","g","n","u","m">>} => res = [tag |-> "Ok", value |-> "Kingdom"]
        /\ input \in {<<"p","h","y","l","u","m">>, <<"d","i","v","i","s","i","o">>} => res = [tag |-> "Ok", value |-> "Phylum"]
        /\ input \in {<<"o","r","d","e","r">>, <<"o","r","d","o">>} => res = [tag |-> "Ok", value |-> "Order"]
        /\ input \in {<<"f","a","m","i","l","y">>, <<"f","a","m","i","l","i","a">>} => res = [tag |-> "Ok", value |-> "Family"]
        /\ input \in {<<"g","e","n","u","s">>, <<"g","e","n","e","r","a">>} => res = [tag |-> "Ok", value |-> "Genus"]

C7_Witness ==
    /\ Parsed
    /\ input = <<"r","e","g","n","u","m">>
    /\ res = [tag |-> "Ok", value |-> "Kingdom"]

(***************************************************************************)
(* C8: the spelling table includes the English name of each rank: for      *)
(* every variant with a plain rank name, from_str of the lower-case name   *)
(* returns Ok of that variant.                                             *)
(***************************************************************************)
C8_EveryPlainNameParses ==
    Parsed =>
        \A v \in DOMAIN PlainName :
            input = PlainName[v] => res = [tag |-> "Ok", value |-> v]

(***************************************************************************)
(* C9: a Latin or plural synonym parses to the rank of its English         *)
(* counterpart; a "sub"-prefixed synonym parses to the Sub- rank and never *)
(* to the rank of the un-prefixed English name.                            *)
(***************************************************************************)
C9_SubSynonyms ==
    { <<<<"s","u","b","r","e","g","n","u","m">>, <<"s","u","b","k","i","n","g","d","o","m">>>>, <<<<"s","u","b","d","i","v","i","s","i","o">>, <<"s","u","b","p","h","y","l","u","m">>>>,
      <<<<"s","u","b","p","h","y","l","a">>, <<"s","u","b","p","h","y","l","u","m">>>>, <<<<"s","u","b","c","l","a","s","s","i","s">>, <<"s","u","b","c","l","a","s","s">>>>,
      <<<<"s","u","b","o","r","d","o">>, <<"s","u","b","o","r","d","e","r">>>>, <<<<"s","u","b","t","r","i","b","u","s">>, <<"s","u","b","t","r","i","b","e">>>>,
      <<<<"s","u","b","f","o","r","m">>, <<"s","u","b","f","o","r","m","a">>>> }

C9_SubSynonymsParseToSubRank ==
    Parsed =>
        \A p \in C9_SubSynonyms :
            input = p[1] =>
                /\ res.tag = "Ok"
                /\ res = from_str(p[2])
                /\ res # from_str(SubSeq(p[2], 4, Len(p[2])))

(***************************************************************************)
(* C10: from_str never defaults. It returns Ok(Unspecified) exactly when   *)
(* the trimmed, lower-cased input is "no rank", an unrecognised input is   *)
(* an Err, and no input gives the hidden placeholder variant.              *)
(***************************************************************************)
C10_NoDefault(s, r) ==
    /\ r = [tag |-> "Ok", value |-> "Unspecified"] <=> IsSpellingOf(s, <<"n","o"," ","r","a","n","k">>)
    /\ ~Recognised(s) => r.tag = "Err"
    /\ r.tag = "Ok" => r.value # "__Nonexhaustive"

C10_NeverDefaults ==
    /\ Parsed => C10_NoDefault(input, res)
    /\ Reparsed => C10_NoDefault(name, back)

C10_Witness ==
    /\ Parsed
    /\ input = <<"\t","N","O"," ","R","A","N","K","\t">>
    /\ res = [tag |-> "Ok", value |-> "Unspecified"]

====
